---- MODULE Spec2Model ----
(***************************************************************************)
(* Model of h3_arcgis (src/src/h3_arcgis/__init__.py): the multi-level     *)
(* hexbin pipeline get_nonoverlapping_h3_hexbins_for_points over a pandas  *)
(* DataFrame that the stages mutate in place, and the area-of-interest     *)
(* helper get_unique_h3_ids_for_aoi.                                       *)
(*                                                                         *)
(* The H3 library is modelled as an aperture-Aperture hierarchy of cells:  *)
(* a cell id is the pair <<resolution, index>>, a point geometry is the    *)
(* index of the finest cell that contains it, and the parent of a cell is  *)
(* found by dropping the trailing digits of its index.                     *)
(***************************************************************************)
EXTENDS Integers, Sequences, FiniteSets, TLC

\* ---------------------------------------------------------------- bounds
NumPoints == 4
MaxLevel == 2
MaxMinCount == 2
MaxRings == 2

\* the child digits of a cell (H3 has seven; two keep the hierarchy small)
Digits == {0, 1}
Aperture == Cardinality(Digits)

Points == 1..NumPoints
Levels == 0..MaxLevel

RECURSIVE Pow(_, _)
Pow(b, e) == IF e = 0 THEN 1 ELSE b * Pow(b, e - 1)

\* where a point can lie: the cells of resolution MaxLevel below one
\* resolution-0 cell
Locs == 0..(Pow(Aperture, MaxLevel) - 1)

\* a missing value of a column (pandas NaN)
NaN == <<-1, -1>>
NaNLvl == -1

\* ------------------------------------------------------------ H3 library
\* h3.geo_to_h3(lat, lon, res): the cell of resolution res holding the point
geo_to_h3(loc, res) == <<res, loc \div Pow(Aperture, MaxLevel - res)>>

\* h3.h3_to_parent(cell, res): the ancestor of cell at resolution res
h3_to_parent(cell, res) == <<res, cell[2] \div Pow(Aperture, cell[1] - res)>>

\* ------------------------------------------------------- column helpers
\* f'h3_{h3_lvl:02d}': the column name, kept as its two decimal digits
h3_col(h3_lvl) == <<h3_lvl \div 10, h3_lvl % 10>>

\* int(col[-2:]): the level a column name stands for
col_lvl(col) == 10 * col[1] + col[2]

get_h3_range_lst(h3_min, h3_max) == h3_min..h3_max

\* the levels of the h3_NN columns of the table (callers sort the list)
get_h3_range_lst_from_df(df) == {col_lvl(col) : col \in DOMAIN df.h3}

RECURSIVE SortAsc(_)
SortAsc(S) ==
    IF S = {} THEN <<>>
    ELSE LET m == CHOOSE x \in S : \A y \in S : x <= y
         IN <<m>> \o SortAsc(S \ {m})

RECURSIVE SortDesc(_)
SortDesc(S) ==
    IF S = {} THEN <<>>
    ELSE LET m == CHOOSE x \in S : \A y \in S : x >= y
         IN <<m>> \o SortDesc(S \ {m})

\* Series.value_counts(): count per distinct non-missing value
value_counts(col, index) ==
    [v \in {col[p] : p \in index} \ {NaN} |->
        Cardinality({p \in index : col[p] = v})]

\* ------------------------------------------------- stage 1: tagging
\* mutant: the assertion lets equal levels through
level_range_ok_ge(h3_max, h3_min) == h3_max >= h3_min

\* assert h3_max > h3_min
level_range_ok(h3_max, h3_min) == h3_max > h3_min

\* mutant: every coarser column is computed at the last level of the loop,
\* as a late-bound loop variable in the lambda would do
add_h3_ids_late_binding(df, h3_max, h3_min) ==
    LET first == [p \in df.index |-> geo_to_h3(df.SHAPE[p], h3_max)]
        newcols == {h3_col(l) : l \in get_h3_range_lst(h3_min, h3_max)}
    IN [df EXCEPT !.h3 =
          [c \in (DOMAIN df.h3) \cup newcols |->
              IF c = h3_col(h3_max) THEN first
              ELSE IF c \in newcols
                   THEN [p \in df.index |-> h3_to_parent(first[p], h3_min)]
                   ELSE df.h3[c]]]

add_h3_ids_to_points(df, h3_max, h3_min) ==
    LET h3_lvl_lst == SortDesc(get_h3_range_lst(h3_min, h3_max))
        first_level == h3_lvl_lst[1]
        first == [p \in df.index |-> geo_to_h3(df.SHAPE[p], first_level)]
        rest == {h3_lvl_lst[i] : i \in 2..Len(h3_lvl_lst)}
        newcols == {h3_col(l) : l \in rest \cup {first_level}}
    IN [df EXCEPT !.h3 =
          [c \in (DOMAIN df.h3) \cup newcols |->
              IF c = h3_col(first_level) THEN first
              ELSE IF c \in newcols
                   THEN [p \in df.index |-> h3_to_parent(first[p], col_lvl(c))]
                   ELSE df.h3[c]]]

\* ------------------------------------------ stage 2: threshold assignment
\* one iteration of the loop over levels (source lines 188-205)
assign_level(df, h3_lvl, min_count) ==
    LET col == df.h3[h3_col(h3_lvl)]
        h3_id_cnt == value_counts(col, df.index)
        h3_id_lst == {v \in DOMAIN h3_id_cnt : h3_id_cnt[v] > min_count}
        df_slice == {p \in df.index : col[p] \in h3_id_lst}
    IN [df EXCEPT
          !.h3_id = [p \in df.index |-> IF p \in df_slice THEN col[p] ELSE df.h3_id[p]],
          !.h3_lvl = [p \in df.index |-> IF p \in df_slice THEN h3_lvl ELSE df.h3_lvl[p]],
          !.h3_orig = [p \in df.index |-> IF p \in df_slice THEN h3_lvl ELSE df.h3_orig[p]]]

RECURSIVE assign_loop(_, _, _)
assign_loop(df, lvls, min_count) ==
    IF lvls = <<>> THEN df
    ELSE assign_loop(assign_level(df, Head(lvls), min_count), Tail(lvls), min_count)

\* df.dropna(subset=[h3_id, h3_lvl], inplace=True)
dropna(df) ==
    LET keep == {p \in df.index : df.h3_id[p] # NaN /\ df.h3_lvl[p] # NaNLvl}
    IN [index |-> keep,
        SHAPE |-> [p \in keep |-> df.SHAPE[p]],
        h3 |-> [c \in DOMAIN df.h3 |-> [p \in keep |-> df.h3[c][p]]],
        h3_id |-> [p \in keep |-> df.h3_id[p]],
        h3_lvl |-> [p \in keep |-> df.h3_lvl[p]],
        h3_orig |-> [p \in keep |-> df.h3_orig[p]]]

get_h3_ids_by_point_count(df, min_count) ==
    dropna(assign_loop(df, SortAsc(get_h3_range_lst_from_df(df)), min_count))

\* ------------------------------------------ stage 3: overlap resolution
\* mutant: only the rows that stand at h3_lvl are promoted
promote_level_own_rows(df, h3_lvl, h3_id_lst) ==
    LET nxt_h3_lvl == h3_lvl - 1
        nxt == df.h3[h3_col(nxt_h3_lvl)]
        df_slice == {p \in df.index :
                        df.h3_lvl[p] = h3_lvl /\ nxt[p] \in h3_id_lst}
    IN [df EXCEPT
          !.h3_id = [p \in df.index |-> IF p \in df_slice THEN nxt[p] ELSE df.h3_id[p]],
          !.h3_lvl = [p \in df.index |-> IF p \in df_slice THEN nxt_h3_lvl ELSE df.h3_lvl[p]]]

\* one iteration of the loop (source lines 230-240); h3_id_lst is the list of
\* assigned ids read once before the loop
promote_level(df, h3_lvl, h3_id_lst) ==
    LET nxt_h3_lvl == h3_lvl - 1
        nxt == df.h3[h3_col(nxt_h3_lvl)]
        df_slice == {p \in df.index : nxt[p] \in h3_id_lst}
    IN [df EXCEPT
          !.h3_id = [p \in df.index |-> IF p \in df_slice THEN nxt[p] ELSE df.h3_id[p]],
          !.h3_lvl = [p \in df.index |-> IF p \in df_slice THEN nxt_h3_lvl ELSE df.h3_lvl[p]]]

\* the loop; a level whose next coarser column is missing raises KeyError and
\* leaves the table as the earlier iterations made it
RECURSIVE promote_loop(_, _, _)
promote_loop(df, lvls, h3_id_lst) ==
    IF lvls = <<>> THEN [df |-> df, raised |-> FALSE]
    ELSE IF h3_col(Head(lvls) - 1) \notin DOMAIN df.h3
         THEN [df |-> df, raised |-> TRUE]
         ELSE promote_loop(promote_level(df, Head(lvls), h3_id_lst), Tail(lvls), h3_id_lst)

\* lst[:-1]
but_last(lst) == IF lst = <<>> THEN <<>> ELSE SubSeq(lst, 1, Len(lst) - 1)

\* mutant: the loop stops one level early (h3_lvl_lst[:-2])
remove_overlapping_stops_early(df) ==
    LET h3_lvl_lst == SortDesc(get_h3_range_lst_from_df(df))
        h3_id_lst == {df.h3_id[p] : p \in df.index}
    IN promote_loop(df, but_last(but_last(h3_lvl_lst)), h3_id_lst)

remove_overlapping_h3_ids(df) ==
    LET h3_lvl_lst == SortDesc(get_h3_range_lst_from_df(df))
        h3_id_lst == {df.h3_id[p] : p \in df.index}
    IN promote_loop(df, but_last(h3_lvl_lst), h3_id_lst)

\* ------------------------------------------ stage 4: materialization
\* mutant: the level of a cell is read from h3_orig instead of h3_lvl
hexbins_with_orig_level(df) ==
    LET h3_id_cnt == value_counts(df.h3_id, df.index)
        level_df == {<<df.h3_id[p], df.h3_orig[p]>> : p \in df.index}
    IN {[h3_id |-> r[1], count |-> h3_id_cnt[r[1]], h3_lvl |-> r[2]] :
            r \in {x \in level_df : x[1] \in DOMAIN h3_id_cnt}}

\* one record per row of hex_df.join(h3_id_cnt).join(level_df); the polygon
\* of a record is a function of its h3_id and is left out
get_h3_hexbins_with_counts(df) ==
    LET h3_id_cnt == value_counts(df.h3_id, df.index)
        level_df == {<<df.h3_id[p], df.h3_lvl[p]>> : p \in df.index}
    IN {[h3_id |-> r[1], count |-> h3_id_cnt[r[1]], h3_lvl |-> r[2]] :
            r \in {x \in level_df : x[1] \in DOMAIN h3_id_cnt}}

\* ------------------------------------------- area-of-interest helper
\* A ring of a polygon is given by the finest-level locations it encloses.
\* h3.polyfill keeps the cells whose centre the polygon contains; the centre
\* of a cell is taken to be its first finest-level descendant.
centroid(cell) == cell[2] * Pow(Aperture, MaxLevel - cell[1])

cells_at(res) == {<<res, i>> : i \in 0..(Pow(Aperture, res) - 1)}

polyfill(ring, res) == {c \in cells_at(res) : centroid(c) \in ring}

\* the rings a region can be made of: one location or two adjacent ones
Rings == {a..b : a \in Locs, b \in Locs} \ {{}}
SmallRings == {r \in Rings : Cardinality(r) <= 2}

\* chain.from_iterable over a list of lists
RECURSIVE chain(_)
chain(lsts) == IF lsts = <<>> THEN <<>> ELSE Head(lsts) \o chain(Tail(lsts))

\* list(s) of a set s: its elements once each, in an order nothing fixes
RECURSIVE list_of_set(_)
list_of_set(S) ==
    IF S = {} THEN <<>>
    ELSE LET x == CHOOSE y \in S : TRUE
         IN <<x>> \o list_of_set(S \ {x})

\* set(lst) of a list
set_of_list(lst) == {lst[i] : i \in 1..Len(lst)}

\* _preprocess_sdf_for_h3: one row per ring of every row's geometry
RECURSIVE preprocess_sdf_for_h3(_)
preprocess_sdf_for_h3(orig_df) ==
    IF orig_df = <<>> THEN <<>>
    ELSE LET geom == Head(orig_df)
         IN [i \in 1..Len(geom) |-> <<geom[i]>>]
                \o preprocess_sdf_for_h3(Tail(orig_df))

\* _get_h3_ids of one exploded feature: polyfill of its geometry
get_h3_ids(feat, hex_level) ==
    LET cover == UNION {polyfill(feat[i], hex_level) : i \in 1..Len(feat)}
    IN list_of_set(cover)

\* h3_ids = set(chain.from_iterable(h3_ids_lst))
unique_h3_ids(h3_ids_lst) == set_of_list(chain(h3_ids_lst))

\* mutant: the ids are returned as chained, without passing through a set
h3_id_list_no_set(h3_ids_lst) == chain(h3_ids_lst)

\* list(h3_ids), the value returned
h3_id_list(h3_ids_lst) == list_of_set(unique_h3_ids(h3_ids_lst))

\* ------------------------------------------------------- the pipeline
\* A table of points that no stage has touched yet.  The columns h3_id,
\* h3_lvl and h3_orig do not exist on it; the first .loc assignment creates
\* them filled with NaN, so they are kept as all-NaN columns from the start.
fresh_table(shape) ==
    [index |-> DOMAIN shape,
     SHAPE |-> shape,
     h3 |-> [c \in {} |-> c],
     h3_id |-> [p \in DOMAIN shape |-> NaN],
     h3_lvl |-> [p \in DOMAIN shape |-> NaNLvl],
     h3_orig |-> [p \in DOMAIN shape |-> NaNLvl]]

\* get_nonoverlapping_h3_hexbins_for_points as one function of its table
get_nonoverlapping_h3_hexbins_for_points(sdf, h3_min, h3_max, min_count) ==
    LET tagged == add_h3_ids_to_points(sdf, h3_max, h3_min)
        cnt_df == get_h3_ids_by_point_count(tagged, min_count)
        cln_cnt_df == remove_overlapping_h3_ids(cnt_df)
    IN IF ~level_range_ok(h3_max, h3_min) \/ cln_cnt_df.raised
       THEN [raised |-> TRUE, out |-> {}]
       ELSE [raised |-> FALSE, out |-> get_h3_hexbins_with_counts(cln_cnt_df.df)]

\* ------------------------------------------------------------------ state
VARIABLES df, h3_min, h3_max, min_count, pc, out, sdf_points,
          orig_df, hex_level, aoi_pc, expl_df, h3_ids_lst, aoi_ret

pipe_vars == <<df, h3_min, h3_max, min_count, pc, out, sdf_points>>
aoi_vars == <<orig_df, hex_level, aoi_pc, expl_df, h3_ids_lst, aoi_ret>>
vars == <<pipe_vars, aoi_vars>>

\* no area of interest is being tessellated
AoiIdle ==
    /\ orig_df = <<>>
    /\ hex_level = 0
    /\ aoi_pc = "idle"
    /\ expl_df = <<>>
    /\ h3_ids_lst = <<>>
    /\ aoi_ret = <<>>

\* The first call: a table of NumPoints points, its rows listed in the order
\* of their locations (no stage depends on the order of the rows), and any
\* arguments.  sdf_points keeps the points of the table as it was passed to
\* the invocation under way.
Init ==
    /\ \E shape \in [Points -> Locs] :
          /\ \A p \in Points : p + 1 \in Points => shape[p] <= shape[p + 1]
          /\ df = fresh_table(shape)
    /\ h3_min \in Levels
    /\ h3_max \in Levels
    /\ min_count \in 0..MaxMinCount
    /\ pc = "start"
    /\ out = {}
    /\ sdf_points = df.SHAPE
    /\ AoiIdle

AddH3Ids ==
    /\ pc = "start"
    /\ IF level_range_ok(h3_max, h3_min)
       THEN /\ df' = add_h3_ids_to_points(df, h3_max, h3_min)
            /\ pc' = "tagged"
       ELSE /\ pc' = "error"
            /\ UNCHANGED df
    /\ UNCHANGED <<h3_min, h3_max, min_count, out, sdf_points, aoi_vars>>

AssignByCount ==
    /\ pc = "tagged"
    /\ df' = get_h3_ids_by_point_count(df, min_count)
    /\ pc' = "assigned"
    /\ UNCHANGED <<h3_min, h3_max, min_count, out, sdf_points, aoi_vars>>

RemoveOverlaps ==
    /\ pc = "assigned"
    /\ LET r == remove_overlapping_h3_ids(df)
       IN /\ df' = r.df
          /\ pc' = IF r.raised THEN "error" ELSE "resolved"
    /\ UNCHANGED <<h3_min, h3_max, min_count, out, sdf_points, aoi_vars>>

Materialize ==
    /\ pc = "resolved"
    /\ out' = get_h3_hexbins_with_counts(df)
    /\ pc' = "done"
    /\ UNCHANGED <<df, h3_min, h3_max, min_count, sdf_points, aoi_vars>>

\* The caller passes the same table object to the pipeline again.  A failed
\* assertion leaves the table as it was passed, so a call after it starts
\* from a state that the call before it started from as well; a call after a
\* KeyError starts from the table as the interrupted loop left it.
Reinvoke ==
    /\ pc = "done" \/ (pc = "error" /\ level_range_ok(h3_max, h3_min))
    /\ h3_min' \in Levels
    /\ h3_max' \in Levels
    /\ min_count' \in 0..MaxMinCount
    /\ pc' = "start"
    /\ out' = {}
    /\ sdf_points' = df.SHAPE
    /\ UNCHANGED <<df, aoi_vars>>

Pipeline == AddH3Ids \/ AssignByCount \/ RemoveOverlaps \/ Materialize

Next == Pipeline \/ Reinvoke

\* one invocation on a table no stage has touched
SpecFresh == Init /\ [][Pipeline]_vars

\* any number of invocations on the same table
Spec == Init /\ [][Next]_vars

\* --------------------------------------- get_unique_h3_ids_for_aoi steps
\* a region of at most MaxRings rings in all, as a list of geometries of at
\* least one ring each: rings[k] opens a new geometry where brk[k] holds
RECURSIVE group(_, _, _)
group(rings, brk, k) ==
    IF k > Len(rings) THEN <<>>
    ELSE LET rest == group(rings, brk, k + 1)
         IN IF k < Len(rings) /\ ~brk[k + 1]
            THEN <<(<<rings[k]>> \o Head(rest))>> \o Tail(rest)
            ELSE <<(<<rings[k]>>)>> \o rest

InitAoi ==
    /\ \E n \in 1..MaxRings :
          \E rings \in [1..n -> SmallRings], brk \in [1..n -> BOOLEAN] :
              /\ brk[1]
              /\ orig_df = group(rings, brk, 1)
    /\ hex_level \in Levels
    /\ aoi_pc = "start"
    /\ expl_df = <<>>
    /\ h3_ids_lst = <<>>
    /\ aoi_ret = <<>>
    /\ df = fresh_table(<<>>)
    /\ h3_min = 0
    /\ h3_max = 0
    /\ min_count = 0
    /\ pc = "idle"
    /\ out = {}
    /\ sdf_points = <<>>

Explode ==
    /\ aoi_pc = "start"
    /\ expl_df' = preprocess_sdf_for_h3(orig_df)
    /\ aoi_pc' = "exploded"
    /\ UNCHANGED <<orig_df, hex_level, h3_ids_lst, aoi_ret, pipe_vars>>

Polyfill ==
    /\ aoi_pc = "exploded"
    /\ h3_ids_lst' = [i \in 1..Len(expl_df) |-> get_h3_ids(expl_df[i], hex_level)]
    /\ aoi_pc' = "filled"
    /\ UNCHANGED <<orig_df, hex_level, expl_df, aoi_ret, pipe_vars>>

ReturnIds ==
    /\ aoi_pc = "filled"
    /\ LET h3_ids == unique_h3_ids(h3_ids_lst)
       IN IF Cardinality(h3_ids) = 0
          THEN /\ aoi_pc' = "raised"
               /\ UNCHANGED aoi_ret
          ELSE /\ aoi_pc' = "returned"
               /\ aoi_ret' = h3_id_list(h3_ids_lst)
    /\ UNCHANGED <<orig_df, hex_level, expl_df, h3_ids_lst, pipe_vars>>

NextAoi == Explode \/ Polyfill \/ ReturnIds

SpecAoi == InitAoi /\ [][NextAoi]_vars

\* ------------------------------------------------------------ vocabulary
\* the levels this invocation was configured with
Configured == h3_min..h3_max

\* the points of the table as it was passed to this invocation
Passed == DOMAIN sdf_points

\* how many of the passed points lie in the level-L cell of point p
CellCount(p, L) ==
    Cardinality({q \in Passed :
        geo_to_h3(sdf_points[q], L) = geo_to_h3(sdf_points[p], L)})

\* p's cell exceeds min_count at some configured level
Clears(p) == \E L \in Configured : CellCount(p, L) > min_count

\* the finest configured level at which p's cell exceeds min_count
FinestClearing(p) ==
    CHOOSE L \in Configured :
        /\ CellCount(p, L) > min_count
        /\ \A M \in Configured : CellCount(p, M) > min_count => M <= L

\* cell a is a strict ancestor of cell b
StrictAncestor(a, b) == a[1] < b[1] /\ h3_to_parent(b, a[1]) = a

RECURSIVE SumCounts(_)
SumCounts(recs) ==
    IF recs = {} THEN 0
    ELSE LET r == CHOOSE x \in recs : TRUE
         IN r.count + SumCounts(recs \ {r})

AfterThreshold == pc \in {"assigned", "resolved", "done"}

\* ---------------------------------------------------------------- claims
\* C1: a point whose cell count exceeds min_count at no configured level is
\* absent from the table after the threshold stage, and no output record
\* counts more points than the clearing points that lie in its cell.
C1_Suppression ==
    /\ AfterThreshold => \A p \in Passed : ~Clears(p) => p \notin df.index
    /\ pc = "done" =>
          \A r \in out :
              r.count <= Cardinality({q \in Passed :
                  Clears(q) /\ geo_to_h3(sdf_points[q], r.h3_lvl) = r.h3_id})

\* C2: no output record has a count smaller than min_count.
C2_SuppressionFloor ==
    pc = "done" => \A r \in out : r.count >= min_count

\* C3: after overlap resolution no assigned cell is a strict ancestor of
\* another assigned cell.
C3_NonOverlap ==
    pc \in {"resolved", "done"} =>
        \A p, q \in df.index : ~StrictAncestor(df.h3_id[p], df.h3_id[q])

\* C4: every surviving point is counted in exactly one output record, the
\* counts add up to the number of surviving points, which is at most the
\* number of points passed in, and no record has count zero.
C4_Conservation ==
    pc = "done" =>
        /\ \A p \in df.index :
              Cardinality({r \in out : r.h3_id = df.h3_id[p]}) = 1
        /\ SumCounts(out) = Cardinality(df.index)
        /\ Cardinality(df.index) <= Cardinality(Passed)
        /\ \A r \in out : r.count > 0

\* C5: after the threshold stage every surviving point carries the cell and
\* level of the finest configured level at which its cell exceeds min_count,
\* in h3_id, h3_lvl and h3_orig alike.
C5_FinestClearingLevel ==
    pc = "assigned" =>
        \A p \in df.index :
            /\ Clears(p)
            /\ df.h3_id[p] = geo_to_h3(sdf_points[p], FinestClearing(p))
            /\ df.h3_lvl[p] = FinestClearing(p)
            /\ df.h3_orig[p] = FinestClearing(p)

\* C6: after tagging, the cell stored at level L is the parent at level L of
\* the cell stored at level L+1, for every configured L below the maximum.
C6_NestingConsistency ==
    pc \in {"tagged", "assigned", "resolved", "done"} =>
        \A p \in df.index : \A L \in Configured :
            L < h3_max =>
                df.h3[h3_col(L)][p] = h3_to_parent(df.h3[h3_col(L + 1)][p], L)

\* C7: an invocation on a table that an earlier invocation has used gives the
\* output that the same invocation gives on a fresh table of the same points.
C7_Independence ==
    LET fresh == get_nonoverlapping_h3_hexbins_for_points(
                     fresh_table(sdf_points), h3_min, h3_max, min_count)
    IN /\ pc = "done" => ~fresh.raised /\ out = fresh.out
       /\ pc = "error" => fresh.raised

\* C8: with min_level >= max_level the entry point fails at once: the table
\* is left as it was passed, no output is produced, the invocation is over.
C8_ConfigurationError ==
    [][(pc = "start" /\ h3_min >= h3_max) =>
          (pc' = "error" /\ df' = df /\ out' = {})]_vars

\* the variant of overlap resolution that reads the assigned ids anew at
\* every level instead of once before the loop
RECURSIVE promote_loop_live(_, _)
promote_loop_live(d, lvls) ==
    IF lvls = <<>> THEN [df |-> d, raised |-> FALSE]
    ELSE IF h3_col(Head(lvls) - 1) \notin DOMAIN d.h3
         THEN [df |-> d, raised |-> TRUE]
         ELSE promote_loop_live(
                  promote_level(d, Head(lvls), {d.h3_id[p] : p \in d.index}),
                  Tail(lvls))

remove_overlapping_live(d) ==
    promote_loop_live(d, but_last(SortDesc(get_h3_range_lst_from_df(d))))

\* the coarsest cell among the assigned ids of table d that is p's assigned
\* cell or an ancestor of it
CoarsestAssigned(d, p) ==
    LET assigned == {d.h3_id[q] : q \in d.index}
        mine == {a \in assigned :
                    a = d.h3_id[p] \/ StrictAncestor(a, d.h3_id[p])}
    IN CHOOSE a \in mine : \A b \in mine : a[1] <= b[1]

\* C10: overlap resolution gives every point the cell and level that the
\* live variant gives it; that cell is the coarsest assigned cell among the
\* point's own cell and its ancestors, its level is not finer than the
\* threshold-assigned level, and h3_orig is untouched.
C10_SnapshotEqualsLive ==
    [][(pc = "assigned" /\ pc' # "assigned") =>
          /\ df' = remove_overlapping_live(df).df
          /\ (pc' = "error") = remove_overlapping_live(df).raised
          /\ df'.h3_orig = df.h3_orig
          /\ pc' = "resolved" =>
                \A p \in df.index :
                    /\ df'.h3_id[p] = CoarsestAssigned(df, p)
                    /\ df'.h3_lvl[p] = CoarsestAssigned(df, p)[1]
                    /\ df'.h3_lvl[p] <= df.h3_orig[p]]_vars

\* the cells that cover some ring of the region passed in
RegionCover ==
    UNION {UNION {polyfill(orig_df[i][j], hex_level) : j \in 1..Len(orig_df[i])} :
              i \in 1..Len(orig_df)}

\* C9: the list returned holds exactly the cells covering some ring of the
\* region, each once, and is never empty; the call raises exactly when no
\* cell covers any ring.
C9_AoiTessellation ==
    /\ aoi_pc = "returned" =>
          /\ set_of_list(aoi_ret) = RegionCover
          /\ Len(aoi_ret) = Cardinality(set_of_list(aoi_ret))
          /\ Len(aoi_ret) > 0
    /\ aoi_pc = "raised" => RegionCover = {}

\* ------------------------------------------------------------- witnesses
\* overlap resolution moved a point to a coarser cell while another point
\* that was assigned below a different cell stays where it was
W3_Promoted ==
    /\ pc = "resolved"
    /\ \E p, q \in df.index :
          /\ df.h3_lvl[p] < df.h3_orig[p]
          /\ df.h3_id[q] # df.h3_id[p]

\* an output produced after the threshold stage dropped a point and overlap
\* resolution promoted one
W4_Counted ==
    /\ pc = "done"
    /\ out # {}
    /\ Cardinality(df.index) < Cardinality(Passed)
    /\ \E p \in df.index : df.h3_lvl[p] < df.h3_orig[p]

\* three levels tagged for points of different finest cells
W6_Tagged ==
    /\ pc = "tagged"
    /\ h3_max - h3_min >= 2
    /\ \E p, q \in df.index :
          df.h3[h3_col(h3_max)][p] # df.h3[h3_col(h3_max)][q]

\* the entry point has failed on equal levels
W8_Failed ==
    /\ pc = "error"
    /\ h3_min = h3_max
    /\ df.index # {}

\* a multipart geometry whose parts cover a common cell has been tessellated
W9_Returned ==
    /\ aoi_pc = "returned"
    /\ \E i \in 1..Len(orig_df) : Len(orig_df[i]) >= 2
    /\ Len(chain(h3_ids_lst)) > Len(aoi_ret)

\* a point has been promoted by two levels, past a level of its own
W10_Cascade ==
    /\ pc = "resolved"
    /\ \E p \in df.index : df.h3_orig[p] - df.h3_lvl[p] >= 2
====
